---- MODULE Spec2Model ----
(***************************************************************************)
(* Model of app.py: the natural-language-to-SQL turn loop                  *)
(* (get_database_schema, generate_sql_langchain, fetch_data,               *)
(* rephrase_answer_deepseek_api, the __main__ loop) and the scheduled      *)
(* failure-rate check (check_failure_rates).                               *)
(*                                                                         *)
(* A text is a sequence of symbols; " " and "\n" are the whitespace        *)
(* symbols, every other symbol stands for a run of non-whitespace          *)
(* characters.  A Python value that may be None is a record with an        *)
(* isNone flag.  An exception is the set of the classes it is an instance  *)
(* of, so that an except clause matches it when its class is in the set.   *)
(***************************************************************************)
EXTENDS Integers, Sequences, FiniteSets, TLC

VARIABLES
    pc,               \* position of the __main__ loop
    turns,            \* number of input() calls made so far
    user_prompt,      \* app.py:209
    completion,       \* raw text chain.invoke returned in this turn, app.py:51
    sql_query,        \* app.py:213
    data,             \* app.py:216
    rephrased_answer, \* app.py:217
    shown,            \* texts printed since the last input() call
    calls,            \* stages entered and backend requests sent since the
                      \* last input() call, in order
    unclosed,         \* connections opened and not yet closed or finalized
    response,         \* what requests.post returned in this turn, app.py:107
    uncaught,         \* the exception that ended the process, if any
    snapshot,         \* metric snapshot the failure-rate job is to inspect
    jobOutcome,       \* how check_failure_rates ended
    sent              \* set of messages handed to send_email

vars == <<pc, turns, user_prompt, completion, sql_query, data, rephrased_answer,
          shown, calls, unclosed, response, uncaught, snapshot, jobOutcome, sent>>

loopVars == <<pc, turns, user_prompt, completion, sql_query, data,
              rephrased_answer, shown, calls, unclosed, response, uncaught>>

alertVars == <<snapshot, jobOutcome, sent>>

-----------------------------------------------------------------------------
(* Bounds *)

MaxLen == 3

MaxRows == 2

MaxTurns == 2

-----------------------------------------------------------------------------
(* Texts and str.strip() *)

Whitespace == {" ", "\n"}

Symbols == Whitespace \cup {"x"}

Texts == UNION {[1..k -> Symbols] : k \in 0..MaxLen}

RECURSIVE LStrip(_)
LStrip(s) ==
    IF s = <<>> THEN s
    ELSE IF Head(s) \in Whitespace THEN LStrip(Tail(s)) ELSE s

RECURSIVE RStrip(_)
RStrip(s) ==
    IF s = <<>> THEN s
    ELSE IF s[Len(s)] \in Whitespace THEN RStrip(SubSeq(s, 1, Len(s) - 1)) ELSE s

StripLeftOnly(s) == LStrip(s)

Strip(s) == RStrip(LStrip(s))

-----------------------------------------------------------------------------
(* Python values *)

None == [isNone |-> TRUE, val |-> <<>>]

Some(v) == [isNone |-> FALSE, val |-> v]

\* str(None), as print() renders it
NoneText == <<"None">>

Str(v) == IF v.isNone THEN NoneText ELSE v.val

\* truth value of a str or list: non-empty
TruthyAlways(s) == TRUE

Truthy(s) == s # <<>>

\* `not data` for data a list or None
NotDataNoneOnly(d) == d.isNone

NotData(d) == d.isNone \/ d.val = <<>>

-----------------------------------------------------------------------------
(* The user's input *)

Questions == {"exit", "EXIT", "Exit", "total amount for location 'east'", ""}

Lower(q) == IF q \in {"exit", "EXIT", "Exit"} THEN "exit" ELSE q

-----------------------------------------------------------------------------
(* Exceptions: the set of classes the raised object is an instance of *)

NoExc == {}

SqliteError == {"sqlite3.OperationalError", "sqlite3.Error"}

OllamaUnreachable == {"ConnectionError"}

TransportError == {"requests.ConnectionError", "RequestException"}

HTTPError == {"requests.HTTPError", "RequestException"}

\* response.json() raises json.JSONDecodeError, or (requests >= 2.27)
\* requests.exceptions.JSONDecodeError, which is also a RequestException;
\* the source does not fix the version of the library.
JSONDecodeErrors ==
    { {"json.JSONDecodeError"},
      {"json.JSONDecodeError", "requests.JSONDecodeError", "RequestException"} }

KeyError == {"KeyError"}

IndexError == {"IndexError"}

Raise(exc) == [exc |-> exc, val |-> <<>>]

Return(v) == [exc |-> NoExc, val |-> v]

-----------------------------------------------------------------------------
(* Texts the program prints *)

NoDataFound == <<"No data found.">>

SqliteErrorText == <<"SQLite error: ...">>

DiagCommunicating == <<"Error communicating with DeepSeek API: ...">>

DiagInvalidJSON == <<"Error decoding DeepSeek API response: Invalid JSON">>

DiagKeyNotFound == <<"Error extracting content from DeepSeek response.  Key not found: ...">>

-----------------------------------------------------------------------------
(* The database and the two model backends: what each call may return *)

Rows == {"row"}

ResultSets == UNION {[1..k -> Rows] : k \in 0..MaxRows}

\* what the rephrase backend may put in choices[0].message.content
Contents == {<<>>, <<" ">>, <<"x">>, <<"\n", "x", " ">>}

\* JSON bodies: with and without each part of choices[0].message.content
Bodies ==
    { [error |-> "overloaded"],
      [choices |-> <<>>],
      [choices |-> << [index |-> "0"] >>],
      [choices |-> << [message |-> [role |-> "assistant"]] >>] }
    \cup { [choices |-> << [message |-> [content |-> c]] >>] : c \in Contents }

StatusCodes == {200, 404, 500}

NoBody == [error |-> "none"]

\* outcome of requests.post: a transport error, or a response with a status
\* code and a body that is JSON or not
Responses ==
    { [kind |-> "transport", status |-> 0, body |-> NoBody] }
    \cup { [kind |-> "nonjson", status |-> c, body |-> NoBody] : c \in StatusCodes }
    \cup { [kind |-> "json", status |-> c, body |-> b] : c \in StatusCodes, b \in Bodies }

NoResponse == [kind |-> "none", status |-> 0, body |-> NoBody]

-----------------------------------------------------------------------------
(* rephrase_answer_deepseek_api, lines 106-121: the try block and its      *)
(* except clauses                                                          *)

\* response.raise_for_status(): raises for 4xx and 5xx
RaisesForStatus(status) == status >= 400 /\ status < 600

\* response_json['choices'][0]['message']['content'].strip(), one subscript
\* at a time
ExtractContent(body) ==
    IF "choices" \notin DOMAIN body THEN Raise(KeyError)
    ELSE IF Len(body.choices) = 0 THEN Raise(IndexError)
    ELSE IF "message" \notin DOMAIN body.choices[1] THEN Raise(KeyError)
    ELSE IF "content" \notin DOMAIN body.choices[1].message THEN Raise(KeyError)
    ELSE Return(Strip(body.choices[1].message.content))

\* lines 107-112; jsonExc is the exception response.json() raises on a body
\* that is not JSON
TryBlock(resp, jsonExc) ==
    IF resp.kind = "transport" THEN Raise(TransportError)
    ELSE IF RaisesForStatus(resp.status) THEN Raise(HTTPError)
    ELSE IF resp.kind = "nonjson" THEN Raise(jsonExc)
    ELSE ExtractContent(resp.body)

\* lines 113-121, in the order written
ExceptClauses ==
    << [class |-> "RequestException", diag |-> DiagCommunicating],
       [class |-> "json.JSONDecodeError", diag |-> DiagInvalidJSON],
       [class |-> "KeyError", diag |-> DiagKeyNotFound] >>

\* index of the first clause that catches exc, 0 when none does
Handler(exc) ==
    IF \E i \in DOMAIN ExceptClauses : ExceptClauses[i].class \in exc
    THEN CHOOSE i \in DOMAIN ExceptClauses :
            /\ ExceptClauses[i].class \in exc
            /\ \A j \in 1..(i - 1) : ExceptClauses[j].class \notin exc
    ELSE 0

-----------------------------------------------------------------------------
(* Initial state of the loop: nothing read, nothing assigned.  The         *)
(* variables of the loop are unbound in Python until first assigned; the   *)
(* model gives them a placeholder that no action reads before assigning.   *)

LoopInit ==
    /\ pc = "await"
    /\ turns = 0
    /\ user_prompt = ""
    /\ completion = <<>>
    /\ sql_query = <<>>
    /\ data = None
    /\ rephrased_answer = None
    /\ shown = <<>>
    /\ calls = <<>>
    /\ unclosed = 0
    /\ response = NoResponse
    /\ uncaught = NoExc

-----------------------------------------------------------------------------
(* The __main__ loop, lines 208-218, one action per blocking call *)

\* an exception nobody catches ends the process
Crash(exc) ==
    /\ pc' = "crashed"
    /\ uncaught' = exc

\* lines 213-215: the statement is executed only `if sql_query:`, otherwise
\* the loop goes back to input()
AfterSynthesis(sql) == IF Truthy(sql) THEN "exec" ELSE "await"

AfterFetchAbortsOnError(d) == IF d.isNone THEN "await" ELSE "rephrase"

AfterFetchRetriesOnError(d) == IF d.isNone THEN "exec" ELSE "rephrase"

\* lines 216-217: whatever fetch_data returned is handed to the rephraser
AfterFetch(d) == "rephrase"

\* lines 209-211
ReadQuestion ==
    /\ pc = "await"
    /\ turns < MaxTurns
    /\ \E q \in Questions :
        /\ user_prompt' = q
        /\ pc' = IF Lower(q) = "exit" THEN "exited" ELSE "schema"
    /\ turns' = turns + 1
    /\ shown' = <<>>
    /\ calls' = <<>>
    /\ completion' = <<>>
    /\ response' = NoResponse
    /\ UNCHANGED <<sql_query, data, rephrased_answer, unclosed, uncaught, alertVars>>

\* line 38 -> get_database_schema, lines 14-34: no try, close() on the last
\* line only
GetDatabaseSchema ==
    /\ pc = "schema"
    /\ calls' = Append(calls, "get_database_schema")
    /\ \/ \* connect, the queries and close() succeed
          /\ pc' = "synth"
          /\ UNCHANGED <<unclosed, uncaught>>
       \/ \* sqlite3.connect raises: no connection was opened
          /\ Crash(SqliteError)
          /\ UNCHANGED unclosed
       \/ \* cursor.execute raises after connect: close() is not reached
          /\ Crash(SqliteError)
          /\ unclosed' = unclosed + 1
    /\ UNCHANGED <<turns, user_prompt, completion, sql_query, data,
                   rephrased_answer, shown, response, alertVars>>

\* lines 39-52 and the test of line 215
InvokeChain ==
    /\ pc = "synth"
    /\ calls' = Append(calls, "chain.invoke")
    /\ \/ \* the Ollama backend cannot be reached: chain.invoke raises
          /\ Crash(OllamaUnreachable)
          /\ UNCHANGED <<completion, sql_query>>
       \/ \E c \in Texts :
          /\ completion' = c
          /\ sql_query' = Strip(c)
          /\ pc' = AfterSynthesis(Strip(c))
          /\ UNCHANGED uncaught
    /\ UNCHANGED <<turns, user_prompt, data, rephrased_answer, shown, unclosed,
                   response, alertVars>>

\* line 216 -> fetch_data, lines 54-65
FetchData ==
    /\ pc = "exec"
    /\ calls' = Append(calls, "fetch_data")
    /\ \/ \* lines 57-62
          \E rows \in ResultSets :
             /\ data' = Some(rows)
             /\ UNCHANGED <<shown, unclosed>>
       \/ \* sqlite3.connect raises sqlite3.Error: lines 63-65
          /\ data' = None
          /\ shown' = Append(shown, SqliteErrorText)
          /\ UNCHANGED unclosed
       \/ \* cursor.execute or fetchall raises sqlite3.Error: lines 63-65,
          \* close() of line 61 is not reached
          /\ data' = None
          /\ shown' = Append(shown, SqliteErrorText)
          /\ unclosed' = unclosed + 1
    /\ pc' = AfterFetch(data')
    /\ UNCHANGED <<turns, user_prompt, completion, sql_query, rephrased_answer,
                   response, uncaught, alertVars>>

\* line 217 -> rephrase_answer_deepseek_api, lines 79-121
RephraseAnswer ==
    /\ pc = "rephrase"
    /\ IF NotData(data)
       THEN \* lines 80-81
            /\ calls' = Append(calls, "rephrase_answer")
            /\ rephrased_answer' = Some(NoDataFound)
            /\ pc' = "print"
            /\ UNCHANGED <<shown, response, uncaught>>
       ELSE \* lines 83-121
            \E resp \in Responses, jsonExc \in JSONDecodeErrors :
              LET r == TryBlock(resp, jsonExc)
                  h == Handler(r.exc)
              IN /\ calls' = calls \o <<"rephrase_answer", "requests.post">>
                 /\ response' = resp
                 /\ IF r.exc = NoExc
                    THEN /\ rephrased_answer' = Some(r.val)
                         /\ pc' = "print"
                         /\ UNCHANGED <<shown, uncaught>>
                    ELSE IF h # 0
                    THEN /\ shown' = Append(shown, ExceptClauses[h].diag)
                         /\ rephrased_answer' = None
                         /\ pc' = "print"
                         /\ UNCHANGED uncaught
                    ELSE /\ Crash(r.exc)
                         /\ UNCHANGED <<shown, rephrased_answer>>
    /\ UNCHANGED <<turns, user_prompt, completion, sql_query, data, unclosed,
                   alertVars>>

\* line 218
PrintAnswer ==
    /\ pc = "print"
    /\ shown' = Append(shown, Str(rephrased_answer))
    /\ pc' = "await"
    /\ UNCHANGED <<turns, user_prompt, completion, sql_query, data,
                   rephrased_answer, calls, unclosed, response, uncaught, alertVars>>

\* a connection nobody closed is released when the interpreter finalizes the
\* unreachable Connection object, at a time the program does not control
FinalizeConnections ==
    /\ unclosed > 0
    /\ unclosed' = 0
    /\ UNCHANGED <<pc, turns, user_prompt, completion, sql_query, data,
                   rephrased_answer, shown, calls, response, uncaught, alertVars>>

-----------------------------------------------------------------------------
(* check_failure_rates, lines 150-156, registered with the scheduler at    *)
(* line 199.  Rates are in percent.                                        *)

FAILURE_THRESHOLD == 5

Locations == {"east", "west"}

FailureRates == {FAILURE_THRESHOLD - 2, FAILURE_THRESHOLD, FAILURE_THRESHOLD + 2}

ManagerEmails == {"manager@example.com"}

\* a location's metrics, each key optional
MetricEntries ==
    { [monthly_tax_collection |-> 0] }
    \cup { [monthly_tax_collection |-> 0, manager_email |-> m] : m \in ManagerEmails }
    \cup { [monthly_tax_collection |-> 0, failure_rate |-> r] : r \in FailureRates }
    \cup { [monthly_tax_collection |-> 0, failure_rate |-> r, manager_email |-> m] :
              r \in FailureRates, m \in ManagerEmails }

Snapshots == [Locations -> MetricEntries]

NoSnapshot == [l \in Locations |-> [monthly_tax_collection |-> 0]]

\* the names the body of check_failure_rates assigns (lines 152, 154, 155):
\* Python makes each of them local to the function
CheckFailureRatesLocals == {"location", "data", "subject", "body"}

\* the locals bound on entry: the function has no parameters (line 150)
CheckFailureRatesParams == {}

\* reading a local name that is not bound yet raises UnboundLocalError
ReadsUnbound(name, locals, bound) == name \in locals /\ name \notin bound

\* line 153
Breaches(entry) ==
    "failure_rate" \in DOMAIN entry /\ entry.failure_rate > FAILURE_THRESHOLD

\* lines 152-156 for a mapping d the loop can iterate over
AlertLoop(d) ==
    IF \E l \in DOMAIN d : Breaches(d[l]) /\ "manager_email" \notin DOMAIN d[l]
    THEN [outcome |-> "KeyError", sent |-> {}]
    ELSE [outcome |-> "returned",
          sent |-> { [to |-> d[l].manager_email, location |-> l] :
                        l \in {k \in DOMAIN d : Breaches(d[k])} }]

\* line 152 evaluates data.items() first, with `data` the function's local
CheckFailureRates ==
    /\ jobOutcome = "scheduled"
    /\ IF ReadsUnbound("data", CheckFailureRatesLocals, CheckFailureRatesParams)
       THEN /\ jobOutcome' = "UnboundLocalError"
            /\ UNCHANGED sent
       ELSE /\ jobOutcome' = AlertLoop(snapshot).outcome
            /\ sent' = AlertLoop(snapshot).sent
    /\ UNCHANGED <<snapshot, loopVars>>

AlertInit ==
    /\ jobOutcome = "scheduled"
    /\ sent = {}

-----------------------------------------------------------------------------
(* Specifications *)

\* the program as run: the jobs are registered (lines 199-202) and nothing
\* calls schedule.run_pending(), so only the loop takes steps
Init ==
    /\ LoopInit
    /\ AlertInit
    /\ snapshot = NoSnapshot

Next ==
    \/ ReadQuestion
    \/ GetDatabaseSchema
    \/ InvokeChain
    \/ FetchData
    \/ RephraseAnswer
    \/ PrintAnswer
    \/ FinalizeConnections

Spec == Init /\ [][Next]_vars

\* the failure-rate job, triggered once on each metric snapshot
InitAlert ==
    /\ LoopInit
    /\ AlertInit
    /\ snapshot \in Snapshots

NextAlert == CheckFailureRates

SpecAlert == InitAlert /\ [][NextAlert]_vars

-----------------------------------------------------------------------------
(* Vocabulary of the properties *)

Range(s) == {s[i] : i \in DOMAIN s}

Last(s) == s[Len(s)]

IsPrefix(s, t) == Len(s) <= Len(t) /\ \A i \in DOMAIN s : s[i] = t[i]

\* the calls of one turn, in the order of lines 213-217 and 38, 51, 107
StageOrder ==
    <<"get_database_schema", "chain.invoke", "fetch_data", "rephrase_answer",
      "requests.post">>

Called(c) == c \in Range(calls)

Diagnostics == {SqliteErrorText, DiagCommunicating, DiagInvalidJSON, DiagKeyNotFound}

NoOuterWhitespace(s) ==
    s = <<>> \/ (Head(s) \notin Whitespace /\ Last(s) \notin Whitespace)

OnlyWhitespace(s) == \A i \in DOMAIN s : s[i] \in Whitespace

\* generate_sql_langchain has returned in the current turn
SynthesisReturned ==
    /\ Called("chain.invoke")
    /\ ~(pc = "crashed" /\ uncaught = OllamaUnreachable)

\* fetch_data has returned in the current turn and line 217 is behind
PastFetch == Called("fetch_data") /\ pc # "rephrase"

\* the current turn is over and the loop is back at input()
TurnEnded == pc = "await" /\ turns > 0

-----------------------------------------------------------------------------
(* C1: once fetch_data has returned, the rephraser is the next stage        *)
(* entered, whatever fetch_data returned; when it returned None (a          *)
(* database error) the turn goes on, the rephraser gets None, sends no      *)
(* request, answers "No data found.", and that is the answer printed.       *)
C1_RephraseFollowsExecutor ==
    PastFetch =>
        /\ Called("rephrase_answer")
        /\ data.isNone =>
            /\ pc \in {"print", "await"}
            /\ ~Called("requests.post")
            /\ rephrased_answer = Some(NoDataFound)
            /\ TurnEnded => shown = <<SqliteErrorText, NoDataFound>>

C1_Witness ==
    /\ TurnEnded
    /\ Called("fetch_data")
    /\ data.isNone
    /\ Last(shown) = NoDataFound

(* C2: the executor and the rephraser are entered only in a turn whose      *)
(* statement is non-empty; a turn whose statement is empty goes back to     *)
(* input() right after synthesis.                                           *)
C2_NoExecutionWithoutStatement ==
    /\ (pc \in {"exec", "rephrase", "print"} \/ Called("fetch_data")
            \/ Called("rephrase_answer") \/ Called("requests.post"))
         => sql_query # <<>>
    /\ (SynthesisReturned /\ sql_query = <<>>)
         => (pc = "await" /\ calls = SubSeq(StageOrder, 1, 2))

C2_Witness ==
    /\ TurnEnded
    /\ SynthesisReturned
    /\ completion # <<>>
    /\ sql_query = <<>>

\* the turn that has just ended failed: empty statement, or the rephraser
\* returned None
TurnFailed ==
    /\ TurnEnded
    /\ \/ sql_query = <<>>
       \/ Called("rephrase_answer") /\ rephrased_answer.isNone

(* C3: a turn that ends in a failure has shown the user a diagnostic        *)
(* message and nothing but diagnostics (no answer text).                    *)
C3_FailedTurnShowsDiagnostic ==
    TurnFailed => (shown # <<>> /\ Range(shown) \subseteq Diagnostics)

(* C4: at the start of the next stage and of the next turn, no connection   *)
(* opened by an earlier stage is still open.                                *)
C4_ConnectionsClosedAtStageEnd ==
    pc \in {"await", "synth", "exec", "rephrase", "print"} => unclosed = 0

\* the cause of a rephrase failure, from what the backend returned
Cause(resp) ==
    IF resp.kind = "transport" \/ RaisesForStatus(resp.status) THEN "transport"
    ELSE IF resp.kind = "nonjson" THEN "malformed body"
    ELSE IF ExtractContent(resp.body).exc # NoExc THEN "missing content field"
    ELSE "none"

DiagOf(cause) ==
    CASE cause = "transport" -> DiagCommunicating
      [] cause = "malformed body" -> DiagInvalidJSON
      [] cause = "missing content field" -> DiagKeyNotFound
      [] OTHER -> <<>>

(* C5: for a non-empty result set and every outcome of the backend call,    *)
(* the rephraser never raises: it returns, and on a failure it has          *)
(* reported the matching one of the three causes.                           *)
C5_RephraseFailureIsReturned ==
    Called("requests.post") =>
        /\ pc # "crashed"
        /\ (pc = "print" /\ Cause(response) # "none") =>
              (rephrased_answer.isNone /\ Last(shown) = DiagOf(Cause(response)))

(* C6: every turn that starts returns control to input(): no failure of     *)
(* schema introspection or of the synthesis backend ends the loop.          *)
C6_TurnReturnsToAwait == pc # "crashed"

(* C7: within one turn the stages and backend requests happen at most once  *)
(* each, in the fixed order, and input() is only called when the previous   *)
(* turn is over.                                                            *)
C7_OnceEachInOrder ==
    /\ [](IsPrefix(calls, StageOrder))
    /\ [][turns' # turns => (pc = "await" /\ calls' = <<>>)]_vars

C7_Witness ==
    /\ calls = StageOrder
    /\ TurnEnded
    /\ turns = MaxTurns

C9_EmptyResultShortCircuits ==
    (PastFetch /\ ~data.isNone /\ data.val = <<>>) =>
        /\ rephrased_answer = Some(NoDataFound)
        /\ ~Called("requests.post")
        /\ pc \in {"print", "await"}

C9_Witness ==
    /\ TurnEnded
    /\ data = Some(<<>>)
    /\ user_prompt # ""
    /\ calls = SubSeq(StageOrder, 1, 4)
    /\ shown = <<NoDataFound>>

\* the alerts the failure-rate check is to send for a snapshot
ExpectedAlerts(d) ==
    { [to |-> d[l].manager_email, location |-> l] :
         l \in {k \in DOMAIN d : Breaches(d[k]) /\ "manager_email" \in DOMAIN d[k]} }

(* C10: the failure-rate check, once triggered, returns without raising     *)
(* and has sent one alert to the manager of each location whose             *)
(* failure_rate is above the threshold, and no other.                       *)
C10_AlertsForBreaches ==
    jobOutcome # "scheduled" =>
        (jobOutcome = "returned" /\ sent = ExpectedAlerts(snapshot))

====
